---- MODULE Spec2Model ----
(***************************************************************************)
(* HRDESK: the table-based authentication core (src/src/lib/tableAuth.ts), *)
(* the auth context (src/src/contexts/AuthContext.tsx), the route guard    *)
(* (AuthGate) and the employee-page handlers that touch the same tables.   *)
(*                                                                         *)
(* Every async function is cut at its awaits: one action per remote call,  *)
(* made of the call's effect on the tables and the code that runs up to    *)
(* the next await (or the return).  A remote call answers in one of three  *)
(* ways: "ok", "error" (the client resolves with {error}) or "throw" (the  *)
(* awaited promise rejects).  A call that faults leaves the tables as they *)
(* were.  Spec is the program with a remote service that answers every     *)
(* call; SpecF is the program with a remote service whose calls may fault. *)
(*                                                                         *)
(* Time is counted in days; the clock moves TickDays at a time.            *)
(* Identifiers and session tokens are numbers, 0 standing for null; fresh  *)
(* ones come from counters (a random UUID / a random 256-bit token is      *)
(* taken to be fresh).                                                     *)
(***************************************************************************)
EXTENDS Integers, Sequences, FiniteSets, TLC

\* ---------------------------------------------------------------- bounds
MaxClock == 14
TickDays == 7
MaxTokens == 2
MaxProfiles == 3
MaxOps == 3
MaxFaults == 1
MaxLoaded == 2

\* ------------------------------------------------------ program constants
SESSION_DAYS == 7

\* the callers that may have a call in flight; Solo is one caller alone
Procs == {1, 2}
Solo == {1}

Nominal == {"ok"}
Faulty == {"ok", "error", "throw"}

\* ------------------------------------------------------------ input sets
Emails == { <<"a">>, <<" ", "A">>, <<"b">>, <<"c">>, <<"C", " ">> }
Passwords == {"p1", "p2"}
FirstNames == {"Fn"}
LastNames == {"Ln"}
SignupRoles == {"hr", "employee"}

\* ------------------------------------------------------------- messages
MsgInvalid == "Invalid email or password"
MsgLoginFailed == "Login failed. Please try again."
MsgNotConfigured == "Account not properly configured. Please contact admin."
MsgRoleNotFound == "User role not found"
MsgSessionFailed == "Failed to create session"
MsgRegistered == "Email already registered"
MsgSecure == "Failed to secure password"
MsgAssignRole == "Failed to assign role"
MsgCreateFailed == "Failed to create user"
MsgUpdateFailed == "Failed to update password"
MsgRemote == "remote error message"

\* ------------------------------------------------------- null and values
NoHash == <<>>
NoProfile ==
  [id |-> 0, user_id |-> 0, email |-> <<>>, first_name |-> "", last_name |-> "",
   password_hash |-> NoHash, employment_status |-> ""]
NoSession == [session_token |-> 0, profile_id |-> 0, expires_at |-> 0]
NoRole == [user_id |-> 0, role |-> ""]
NoUser ==
  [id |-> 0, profileId |-> 0, email |-> <<>>, firstName |-> "", lastName |-> "",
   role |-> ""]
NoArg == [email |-> <<>>, password |-> "", firstName |-> "", lastName |-> "",
          role |-> "", profileId |-> 0]
NoLoc == [profile |-> NoProfile, role |-> "", token |-> 0, expiresAt |-> 0,
          checkedAt |-> 0, userId |-> 0, hash |-> NoHash, branch |-> ""]
NoResult == [kind |-> "none"]
\* no id proposed yet (the form's default employee_id: '')
NoEmployeeId == << >>
NoStore == [token |-> 0, user_id |-> 0]

\* ----------------------------------------------------- string conversions
\* String.prototype.toLowerCase, on the letters of the input sets
LowerChar(c) ==
  CASE c = "A" -> "a"
    [] c = "C" -> "c"
    [] OTHER -> c

ToLowerCase(s) == [i \in 1..Len(s) |-> LowerChar(s[i])]

RECURSIVE TrimStart(_)
TrimStart(s) ==
  IF s # <<>> /\ Head(s) = " " THEN TrimStart(Tail(s)) ELSE s

RECURSIVE TrimEnd(_)
TrimEnd(s) ==
  IF s # <<>> /\ s[Len(s)] = " " THEN TrimEnd(SubSeq(s, 1, Len(s) - 1)) ELSE s

\* String.prototype.trim
Trim(s) == TrimEnd(TrimStart(s))

\* email.toLowerCase().trim()
NormalizeEmail(email) == Trim(ToLowerCase(email))

\* ------------------------------------------------- the remote procedures
\* rpc('hash_password'): the stored form of a password
HashPassword(password) == <<"hash", password>>

\* rpc('verify_password')
VerifyPassword(password, password_hash) == password_hash = HashPassword(password)

\* ------------------------------------------------------ the remote client
\* The answer of a remote call: it threw, or it resolved with {data, error}.
Reply(threw, error, data) == [threw |-> threw, error |-> error, data |-> data]

\* .select(...).eq(...).maybeSingle(): no row is data null, one row is the row,
\* several rows are an error
MaybeSingle(o, rows, null) ==
  IF o = "throw" THEN Reply(TRUE, FALSE, null)
  ELSE IF o = "error" \/ Cardinality(rows) > 1 THEN Reply(FALSE, TRUE, null)
  ELSE IF rows = {} THEN Reply(FALSE, FALSE, null)
  ELSE Reply(FALSE, FALSE, CHOOSE x \in rows : TRUE)

\* an rpc call or a write: data is the value the service computes
Call(o, data, null) ==
  IF o = "throw" THEN Reply(TRUE, FALSE, null)
  ELSE IF o = "error" THEN Reply(FALSE, TRUE, null)
  ELSE Reply(FALSE, FALSE, data)

\* rpc('hash_password') may also resolve with no error and no hash
HashOutcomes(O) == IF O = Nominal THEN O ELSE O \cup {"empty"}

HashCall(o, password) ==
  IF o = "empty" THEN Reply(FALSE, FALSE, NoHash)
  ELSE Call(o, HashPassword(password), NoHash)

\* ------------------------------------------------------------------ state
VARIABLES
  profiles,   \* the profiles table
  roles,      \* the user_roles table
  sessions,   \* the user_sessions table
  store,      \* localStorage: hrms_session_token, hrms_user_id
  now,        \* the clock, in days
  nextToken,  \* the next fresh session token
  nextId,     \* the next fresh profile id / user id
  authUser,   \* AuthProvider: the cached user
  loading,    \* AuthProvider: the loading flag
  mounted,    \* AuthProvider's mount effect has started
  ops,        \* the number of calls started
  faults,     \* the number of remote calls that faulted
  th,         \* the running calls: one record per caller
  employeeIds,    \* employees page: the employee_id of each loaded employee
  nextEmployeeId  \* employees page: the id the Add dialog proposes

vars == <<profiles, roles, sessions, store, now, nextToken, nextId,
          authUser, loading, mounted, ops, faults, th,
          employeeIds, nextEmployeeId>>

page == <<employeeIds, nextEmployeeId>>

db == <<profiles, roles, sessions>>
ctx == <<authUser, loading, mounted>>

\* user ids are drawn apart from profile ids
UserIdOf(n) == n + 10

SeedProfiles ==
  { [id |-> 1, user_id |-> UserIdOf(1), email |-> <<"a">>, first_name |-> "Ad",
     last_name |-> "Min", password_hash |-> HashPassword("p1"),
     employment_status |-> "active"],
    [id |-> 2, user_id |-> UserIdOf(2), email |-> <<"b">>, first_name |-> "Le",
     last_name |-> "Gacy", password_hash |-> NoHash,
     employment_status |-> "active"] }

SeedRoles ==
  { [user_id |-> UserIdOf(1), role |-> "admin"],
    [user_id |-> UserIdOf(2), role |-> "employee"] }

NoPrev == [op |-> "none", branch |-> "", user |-> NoUser, token |-> 0,
           expiresAt |-> 0]

Idle ==
  [op |-> "none", pc |-> "idle", arg |-> NoArg, loc |-> NoLoc,
   result |-> NoResult, pre |-> [sessions |-> {}, store |-> NoStore,
                                 profiles |-> {}, roles |-> {}, now |-> 0,
                                 ops |-> 0, faults |-> 0],
   prev |-> NoPrev]

Init ==
  /\ profiles = SeedProfiles
  /\ roles = SeedRoles
  /\ sessions = {}
  /\ store = NoStore
  /\ now = 0
  /\ nextToken = 1
  /\ nextId = 3
  /\ authUser = NoUser
  /\ loading = TRUE
  /\ mounted = FALSE
  /\ ops = 0
  /\ faults = 0
  /\ th = [p \in Procs |-> Idle]
  /\ employeeIds = << >>
  /\ nextEmployeeId = NoEmployeeId

\* the answers a remote call may get, and the count of the faults
Outcomes(O) == IF faults < MaxFaults THEN O ELSE O \cap Nominal
Charge(o) == faults' = IF o = "ok" THEN faults ELSE faults + 1

\* ------------------------------------------------------- calls in flight
\* history: the tables, the session store, the clock and the two counters when
\* a call started
Snapshot ==
  [sessions |-> sessions, store |-> store, profiles |-> profiles,
   roles |-> roles, now |-> now, ops |-> ops, faults |-> faults]

\* history: the call a caller made right before a session check, when it is a
\* login that succeeded, a logout, or a session check that met an expired row
Chained ==
  {<<"login", "ok">>, <<"signOut", "noToken">>, <<"signOut", "deleted">>,
   <<"signOut", "deleteError">>, <<"refreshUser", "expired">>,
   <<"initializeAuth", "expired">>}

PrevOf(t, op) ==
  IF op \in {"refreshUser", "initializeAuth"} /\ <<t.op, t.loc.branch>> \in Chained
    THEN [op |-> t.op, branch |-> t.loc.branch,
          user |-> IF t.op = "login" THEN t.result.user ELSE NoUser,
          token |-> t.loc.token, expiresAt |-> t.loc.expiresAt]
    ELSE NoPrev

\* a caller starts a call
Begin(p, op, pc, arg, loc) ==
  [op |-> op, pc |-> pc, arg |-> arg, loc |-> loc, result |-> NoResult,
   pre |-> Snapshot, prev |-> PrevOf(th[p], op)]

\* the call returns (or throws) result; branch names the exit taken
Done(t, result, branch) ==
  [t EXCEPT !.pc = "done", !.result = result, !.loc.branch = branch]

\* a caller with no call in flight may start one
Free(p) == th[p].pc \in {"idle", "done"} /\ ops < MaxOps
At(p, op, pc) == th[p].op = op /\ th[p].pc = pc

\* localStorage.removeItem of both keys
ClearedStore == [token |-> 0, user_id |-> 0]

\* ---------------------------------------------------------------- clock
Tick ==
  /\ now + TickDays <= MaxClock
  /\ UNCHANGED page
  /\ now' = now + TickDays
  /\ UNCHANGED <<db, store, nextToken, nextId, ctx, th, ops, faults>>

\* ----------------------------------------------------------- tableLogin
LoginFail(error) ==
  [kind |-> "login", success |-> FALSE, user |-> NoUser, error |-> error]

\* the Authenticated-user view assembled from a Profile and a role
UserView(profile, role) ==
  [id |-> profile.user_id, profileId |-> profile.id, email |-> profile.email,
   firstName |-> profile.first_name, lastName |-> profile.last_name,
   role |-> role]

LoginOk(profile, role) ==
  [kind |-> "login", success |-> TRUE, user |-> UserView(profile, role),
   error |-> ""]

\* expiresAt.setDate(expiresAt.getDate() + 7)
SessionExpiry(t) == t + SESSION_DAYS

LoginStart(p) ==
  /\ Free(p)
  /\ UNCHANGED page
  /\ nextToken <= MaxTokens
  /\ \E e \in Emails, pw \in Passwords :
       th' = [th EXCEPT ![p] =
                Begin(p, "login", "L_profile",
                      [NoArg EXCEPT !.email = e, !.password = pw], NoLoc)]
  /\ ops' = ops + 1
  /\ UNCHANGED <<db, store, now, nextToken, nextId, ctx, faults>>

\* mutant: a Profile without a password hash goes on to the verification
LoginAfterProfile_M(t, r) ==
  IF r.threw THEN Done(t, LoginFail(MsgLoginFailed), "profileThrew")
  ELSE IF r.error THEN Done(t, LoginFail(MsgLoginFailed), "profileError")
  ELSE IF r.data = NoProfile THEN Done(t, LoginFail(MsgInvalid), "noProfile")
  ELSE [t EXCEPT !.pc = "L_verify", !.loc.profile = r.data]

\* after the profile lookup
LoginAfterProfile(t, r) ==
  IF r.threw THEN Done(t, LoginFail(MsgLoginFailed), "profileThrew")
  ELSE IF r.error THEN Done(t, LoginFail(MsgLoginFailed), "profileError")
  ELSE IF r.data = NoProfile THEN Done(t, LoginFail(MsgInvalid), "noProfile")
  ELSE IF r.data.password_hash = NoHash
    THEN Done(t, LoginFail(MsgNotConfigured), "noHash")
  ELSE [t EXCEPT !.pc = "L_verify", !.loc.profile = r.data]

LoginProfile(p, O) ==
  /\ At(p, "login", "L_profile")
  /\ UNCHANGED page
  /\ \E o \in Outcomes(O) :
    /\ Charge(o)
    /\ th' = [th EXCEPT ![p] =
                LoginAfterProfile(@,
                  MaybeSingle(o, {x \in profiles :
                                    x.email = NormalizeEmail(th[p].arg.email)},
                              NoProfile))]
  /\ UNCHANGED <<db, store, now, nextToken, nextId, ctx, ops>>

\* mutant: a wrong password gets a message of its own
LoginAfterVerify_M(t, r) ==
  IF r.threw THEN Done(t, LoginFail(MsgLoginFailed), "verifyThrew")
  ELSE IF r.error THEN Done(t, LoginFail(MsgLoginFailed), "verifyError")
  ELSE IF ~r.data THEN Done(t, LoginFail("Wrong password"), "wrongPassword")
  ELSE [t EXCEPT !.pc = "L_role"]

\* after rpc('verify_password')
LoginAfterVerify(t, r) ==
  IF r.threw THEN Done(t, LoginFail(MsgLoginFailed), "verifyThrew")
  ELSE IF r.error THEN Done(t, LoginFail(MsgLoginFailed), "verifyError")
  ELSE IF ~r.data THEN Done(t, LoginFail(MsgInvalid), "wrongPassword")
  ELSE [t EXCEPT !.pc = "L_role"]

LoginVerify(p, O) ==
  /\ At(p, "login", "L_verify")
  /\ UNCHANGED page
  /\ \E o \in Outcomes(O) :
    /\ Charge(o)
    /\ th' = [th EXCEPT ![p] =
                LoginAfterVerify(@,
                  Call(o, VerifyPassword(th[p].arg.password,
                                         th[p].loc.profile.password_hash),
                       FALSE))]
  /\ UNCHANGED <<db, store, now, nextToken, nextId, ctx, ops>>

\* mutant: generateSessionToken gives the token it gave before
TokenAfter_M(n) == n

\* generateSessionToken: 32 random bytes; the token after token n is a new one
TokenAfter(n) == n + 1

\* mutant: a role lookup that finds no row does not stop the login
LoginAfterRole_M(t, r, token, clock) ==
  IF r.threw THEN Done(t, LoginFail(MsgLoginFailed), "roleThrew")
  ELSE IF r.error THEN Done(t, LoginFail(MsgRoleNotFound), "noRole")
  ELSE [t EXCEPT !.pc = "L_insert", !.loc.role = r.data.role,
                 !.loc.token = token, !.loc.expiresAt = SessionExpiry(clock)]

\* after the role lookup: the token and the expiry of the session to insert
LoginAfterRole(t, r, token, clock) ==
  IF r.threw THEN Done(t, LoginFail(MsgLoginFailed), "roleThrew")
  ELSE IF r.error \/ r.data = NoRole
    THEN Done(t, LoginFail(MsgRoleNotFound), "noRole")
  ELSE [t EXCEPT !.pc = "L_insert", !.loc.role = r.data.role,
                 !.loc.token = token, !.loc.expiresAt = SessionExpiry(clock)]

LoginRole(p, O) ==
  /\ At(p, "login", "L_role")
  /\ UNCHANGED page
  /\ \E o \in Outcomes(O) :
    /\ Charge(o)
    /\ LET t == LoginAfterRole(th[p],
                  MaybeSingle(o, {x \in roles :
                                    x.user_id = th[p].loc.profile.user_id},
                              NoRole),
                  nextToken, now)
       IN /\ th' = [th EXCEPT ![p] = t]
          /\ nextToken' = IF t.pc = "L_insert" THEN TokenAfter(nextToken)
                           ELSE nextToken
  /\ UNCHANGED <<db, store, now, nextId, ctx, ops>>

\* mutant: the Session row is keyed by the user id
SessionRow_M(t) ==
  [session_token |-> t.loc.token, profile_id |-> t.loc.profile.user_id,
   expires_at |-> t.loc.expiresAt]

\* the Session row login inserts
SessionRow(t) ==
  [session_token |-> t.loc.token, profile_id |-> t.loc.profile.id,
   expires_at |-> t.loc.expiresAt]

\* after the insert: the session store and the result
LoginAfterInsert(t, r) ==
  IF r.threw THEN Done(t, LoginFail(MsgLoginFailed), "insertThrew")
  ELSE IF r.error THEN Done(t, LoginFail(MsgSessionFailed), "sessionError")
  ELSE Done(t, LoginOk(t.loc.profile, t.loc.role), "ok")

\* mutant: a token already stored is kept
LoginStoreFirst_M(t, r, s) ==
  IF r.threw \/ r.error \/ s.token # 0 THEN s
  ELSE [token |-> t.loc.token, user_id |-> t.loc.profile.user_id]

\* mutant: the id of the Profile is stored for the user id
LoginStoreProfileId_M(t, r, s) ==
  IF r.threw \/ r.error THEN s
  ELSE [token |-> t.loc.token, user_id |-> t.loc.profile.id]

\* mutant: the store is written before the insert's error is looked at
LoginStore_M(t, r, s) ==
  IF r.threw THEN s
  ELSE [token |-> t.loc.token, user_id |-> t.loc.profile.user_id]

LoginStore(t, r, s) ==
  IF r.threw \/ r.error THEN s
  ELSE [token |-> t.loc.token, user_id |-> t.loc.profile.user_id]

LoginInsert(p, O) ==
  /\ At(p, "login", "L_insert")
  /\ UNCHANGED page
  /\ \E o \in Outcomes(O) :
    /\ Charge(o)
    /\ LET r == Call(o, TRUE, FALSE)
       IN /\ sessions' = IF r.threw \/ r.error THEN sessions
                         ELSE sessions \cup {SessionRow(th[p])}
          /\ store' = LoginStore(th[p], r, store)
          /\ th' = [th EXCEPT ![p] = LoginAfterInsert(@, r)]
  /\ UNCHANGED <<profiles, roles, now, nextToken, nextId, ctx, ops>>

\* ---------------------------------------------------------- tableLogout
\* signOut: try { await tableLogout(); setAuthUser(null) } catch { setAuthUser(null) }
Returned == [kind |-> "void"]
Threw == [kind |-> "threw"]

SignOutStart(p) ==
  /\ Free(p)
  /\ UNCHANGED page
  /\ LET t == Begin(p, "signOut", "O_delete", NoArg,
                    [NoLoc EXCEPT !.token = store.token])
     IN IF store.token = 0
          THEN /\ th' = [th EXCEPT ![p] = Done(t, Returned, "noToken")]
               /\ store' = ClearedStore
               /\ authUser' = NoUser
          ELSE /\ th' = [th EXCEPT ![p] = t]
               /\ UNCHANGED <<store, authUser>>
  /\ ops' = ops + 1
  /\ UNCHANGED <<db, now, nextToken, nextId, loading, mounted, faults>>

\* mutant: logout leaves the session store alone
LogoutStoreKeep_M(r, s) == s

\* mutant: the store is cleared only when the row was deleted
LogoutStore_M(r, s) == IF r.threw \/ r.error THEN s ELSE ClearedStore

\* after the delete of the Session row: the clear of the session store
LogoutStore(r, s) == IF r.threw THEN s ELSE ClearedStore

LogoutAfterDelete(t, r) ==
  IF r.threw THEN Done(t, Threw, "deleteThrew")
  ELSE Done(t, Returned, IF r.error THEN "deleteError" ELSE "deleted")

SignOutDelete(p, O) ==
  /\ At(p, "signOut", "O_delete")
  /\ UNCHANGED page
  /\ \E o \in Outcomes(O) :
    /\ Charge(o)
    /\ LET r == Call(o, TRUE, FALSE)
       IN /\ sessions' = IF r.threw \/ r.error THEN sessions
                         ELSE {x \in sessions :
                                 x.session_token # th[p].loc.token}
          /\ store' = LogoutStore(r, store)
          /\ th' = [th EXCEPT ![p] = LogoutAfterDelete(@, r)]
          /\ authUser' = NoUser
  /\ UNCHANGED <<profiles, roles, now, nextToken, nextId, loading, mounted, ops>>

\* ------------------------------------------------------- getSessionUser
\* refreshUser and the mount effect (initializeAuth) are its callers
Getters == {"refreshUser", "initializeAuth"}

UserResult(user) == [kind |-> "user", user |-> user]

\* mutant: a session is expired on its expiry date already
ExpiredOnTheDay_M(expires_at, clock) == expires_at <= clock

\* mutant: the expiry is never looked at
Expired_M(expires_at, clock) == FALSE

\* new Date(session.expires_at) < new Date()
Expired(expires_at, clock) == expires_at < clock

\* mutant: initializeAuth leaves the loading flag alone
LoadingAfter_M(op, l) == l

\* setAuthUser(user or null), and setLoading(false) in initializeAuth's finally
LoadingAfter(op, l) == IF op = "initializeAuth" THEN FALSE ELSE l

GetStart(p) ==
  /\ Free(p)
  /\ UNCHANGED page
  /\ \E op \in Getters :
       /\ (op = "initializeAuth") = ~mounted
       /\ mounted' = TRUE
       /\ LET t == Begin(p, op, "G_session", NoArg,
                         [NoLoc EXCEPT !.token = store.token])
          IN IF store.token = 0
               THEN /\ th' = [th EXCEPT ![p] =
                                Done(t, UserResult(NoUser), "noToken")]
                    /\ authUser' = NoUser
                    /\ loading' = LoadingAfter(op, loading)
               ELSE /\ th' = [th EXCEPT ![p] = t]
                    /\ UNCHANGED <<authUser, loading>>
  /\ ops' = ops + 1
  /\ UNCHANGED <<db, store, now, nextToken, nextId, faults>>

\* after the session lookup
GetAfterSession(t, r, clock) ==
  IF r.threw THEN Done(t, UserResult(NoUser), "sessionThrew")
  ELSE IF r.error \/ r.data = NoSession
    THEN Done(t, UserResult(NoUser), "noSession")
  ELSE IF Expired(r.data.expires_at, clock)
    THEN [t EXCEPT !.pc = "G_expire", !.loc.expiresAt = r.data.expires_at,
                   !.loc.checkedAt = clock]
  ELSE [t EXCEPT !.pc = "G_profile", !.loc.expiresAt = r.data.expires_at,
                 !.loc.checkedAt = clock,
                 !.loc.profile.id = r.data.profile_id]

\* mutant: a token that matches no row stays in the store
GetStoreAfterSession_M(r, s) == s

GetStoreAfterSession(r, s) ==
  IF ~r.threw /\ (r.error \/ r.data = NoSession) THEN ClearedStore ELSE s

GetSession(p, O) ==
  /\ th[p].op \in Getters /\ th[p].pc = "G_session"
  /\ UNCHANGED page
  /\ \E o \in Outcomes(O) :
    /\ Charge(o)
    /\ LET r == MaybeSingle(o, {x \in sessions :
                                  x.session_token = th[p].loc.token},
                            NoSession)
           t == GetAfterSession(th[p], r, now)
       IN /\ th' = [th EXCEPT ![p] = t]
          /\ store' = GetStoreAfterSession(r, store)
          /\ IF t.pc = "done"
               THEN /\ authUser' = NoUser
                    /\ loading' = LoadingAfter(th[p].op, loading)
               ELSE UNCHANGED <<authUser, loading>>
  /\ UNCHANGED <<db, now, nextToken, nextId, mounted, ops>>

\* mutant: the store keeps the expired token
GetStoreAfterExpire_M(r, s) == s

\* after the delete of the expired row
GetStoreAfterExpire(r, s) == IF r.threw THEN s ELSE ClearedStore

GetExpire(p, O) ==
  /\ th[p].op \in Getters /\ th[p].pc = "G_expire"
  /\ UNCHANGED page
  /\ \E o \in Outcomes(O) :
    /\ Charge(o)
    /\ LET r == Call(o, TRUE, FALSE)
       IN /\ sessions' = IF r.threw \/ r.error THEN sessions
                         ELSE {x \in sessions :
                                 x.session_token # th[p].loc.token}
          /\ store' = GetStoreAfterExpire(r, store)
          /\ th' = [th EXCEPT ![p] =
                      Done(@, UserResult(NoUser),
                           IF r.threw THEN "expireThrew" ELSE "expired")]
  /\ authUser' = NoUser
  /\ loading' = LoadingAfter(th[p].op, loading)
  /\ UNCHANGED <<profiles, roles, now, nextToken, nextId, mounted, ops>>

\* mutant: a session without a Profile is carried on to the role lookup
GetAfterProfile_M(t, r) ==
  IF r.threw THEN Done(t, UserResult(NoUser), "profileThrew")
  ELSE IF r.error THEN Done(t, UserResult(NoUser), "noProfile")
  ELSE [t EXCEPT !.pc = "G_role", !.loc.profile = r.data]

\* after the profile lookup
GetAfterProfile(t, r) ==
  IF r.threw THEN Done(t, UserResult(NoUser), "profileThrew")
  ELSE IF r.error \/ r.data = NoProfile
    THEN Done(t, UserResult(NoUser), "noProfile")
  ELSE [t EXCEPT !.pc = "G_role", !.loc.profile = r.data]

GetProfile(p, O) ==
  /\ th[p].op \in Getters /\ th[p].pc = "G_profile"
  /\ UNCHANGED page
  /\ \E o \in Outcomes(O) :
    /\ Charge(o)
    /\ LET t == GetAfterProfile(th[p],
                  MaybeSingle(o, {x \in profiles :
                                    x.id = th[p].loc.profile.id},
                              NoProfile))
       IN /\ th' = [th EXCEPT ![p] = t]
          /\ IF t.pc = "done"
               THEN /\ authUser' = NoUser
                    /\ loading' = LoadingAfter(th[p].op, loading)
               ELSE UNCHANGED <<authUser, loading>>
  /\ UNCHANGED <<db, store, now, nextToken, nextId, mounted, ops>>

\* mutant: the role that was looked up is dropped
RoleOrDefault_M(r) == "employee"

\* roleData?.role || 'employee'
RoleOrDefault(r) ==
  IF r.error \/ r.data = NoRole THEN "employee" ELSE r.data.role

\* mutant: a Profile without a role is no user
GetAfterRole_M(t, r) ==
  IF r.threw \/ r.error \/ r.data = NoRole
    THEN Done(t, UserResult(NoUser), "roleThrew")
  ELSE Done(t, UserResult(UserView(t.loc.profile, RoleOrDefault(r))), "ok")

\* after the role lookup
GetAfterRole(t, r) ==
  IF r.threw THEN Done(t, UserResult(NoUser), "roleThrew")
  ELSE Done(t, UserResult(UserView(t.loc.profile, RoleOrDefault(r))), "ok")

GetRole(p, O) ==
  /\ th[p].op \in Getters /\ th[p].pc = "G_role"
  /\ UNCHANGED page
  /\ \E o \in Outcomes(O) :
    /\ Charge(o)
    /\ LET t == GetAfterRole(th[p],
                  MaybeSingle(o, {x \in roles :
                                    x.user_id = th[p].loc.profile.user_id},
                              NoRole))
       IN /\ th' = [th EXCEPT ![p] = t]
          /\ authUser' = t.result.user
  /\ loading' = LoadingAfter(th[p].op, loading)
  /\ UNCHANGED <<db, store, now, nextToken, nextId, mounted, ops>>

\* ------------------------------------------------------ createTableUser
CreateFail(error) ==
  [kind |-> "create", success |-> FALSE, userId |-> 0, profileId |-> 0,
   error |-> error]

CreateOk(userId, profileId) ==
  [kind |-> "create", success |-> TRUE, userId |-> userId,
   profileId |-> profileId, error |-> ""]

CreateStart(p) ==
  /\ Free(p)
  /\ UNCHANGED page
  /\ nextId <= MaxProfiles
  /\ \E e \in Emails, pw \in Passwords, fn \in FirstNames, ln \in LastNames,
        ro \in SignupRoles :
       th' = [th EXCEPT ![p] =
                Begin(p, "createUser", "C_exists",
                      [NoArg EXCEPT !.email = e, !.password = pw,
                                    !.firstName = fn, !.lastName = ln,
                                    !.role = ro], NoLoc)]
  /\ ops' = ops + 1
  /\ UNCHANGED <<db, store, now, nextToken, nextId, ctx, faults>>

\* after the lookup of the email: only the data of the answer is read
CreateAfterExists(t, r) ==
  IF r.threw THEN Done(t, CreateFail(MsgCreateFailed), "existsThrew")
  ELSE IF r.data # NoProfile THEN Done(t, CreateFail(MsgRegistered), "registered")
  ELSE [t EXCEPT !.pc = "C_hash"]

CreateExists(p, O) ==
  /\ At(p, "createUser", "C_exists")
  /\ UNCHANGED page
  /\ \E o \in Outcomes(O) :
    /\ Charge(o)
    /\ th' = [th EXCEPT ![p] =
                CreateAfterExists(@,
                  MaybeSingle(o, {x \in profiles :
                                    x.email = NormalizeEmail(th[p].arg.email)},
                              NoProfile))]
  /\ UNCHANGED <<db, store, now, nextToken, nextId, ctx, ops>>

\* mutant: an empty hash is not looked for
CreateAfterHash_M(t, r, n) ==
  IF r.threw THEN Done(t, CreateFail(MsgCreateFailed), "hashThrew")
  ELSE IF r.error THEN Done(t, CreateFail(MsgSecure), "hashError")
  ELSE [t EXCEPT !.pc = "C_profile", !.loc.hash = r.data,
                 !.loc.userId = UserIdOf(n), !.loc.profile.id = n]

\* after rpc('hash_password'): the hash and the new user id
CreateAfterHash(t, r, n) ==
  IF r.threw THEN Done(t, CreateFail(MsgCreateFailed), "hashThrew")
  ELSE IF r.error \/ r.data = NoHash
    THEN Done(t, CreateFail(MsgSecure), "hashError")
  ELSE [t EXCEPT !.pc = "C_profile", !.loc.hash = r.data,
                 !.loc.userId = UserIdOf(n), !.loc.profile.id = n]

CreateHash(p, O) ==
  /\ At(p, "createUser", "C_hash")
  /\ UNCHANGED page
  /\ \E o \in Outcomes(HashOutcomes(O)) :
    /\ Charge(o)
    /\ LET t == CreateAfterHash(th[p], HashCall(o, th[p].arg.password), nextId)
       IN /\ th' = [th EXCEPT ![p] = t]
          /\ nextId' = IF t.pc = "C_profile" THEN nextId + 1 ELSE nextId
  /\ UNCHANGED <<db, store, now, nextToken, ctx, ops>>

\* mutant: the email is stored as it was typed
ProfileRow_M(t) ==
  [id |-> t.loc.profile.id, user_id |-> t.loc.userId,
   email |-> t.arg.email, first_name |-> t.arg.firstName,
   last_name |-> t.arg.lastName, password_hash |-> t.loc.hash,
   employment_status |-> "active"]

\* the Profile row createTableUser inserts
ProfileRow(t) ==
  [id |-> t.loc.profile.id, user_id |-> t.loc.userId,
   email |-> NormalizeEmail(t.arg.email), first_name |-> t.arg.firstName,
   last_name |-> t.arg.lastName, password_hash |-> t.loc.hash,
   employment_status |-> "active"]

CreateAfterProfile(t, r) ==
  IF r.threw THEN Done(t, CreateFail(MsgCreateFailed), "profileThrew")
  ELSE IF r.error THEN Done(t, CreateFail(MsgRemote), "profileError")
  ELSE [t EXCEPT !.pc = "C_role", !.loc.profile = ProfileRow(t)]

CreateProfile(p, O) ==
  /\ At(p, "createUser", "C_profile")
  /\ UNCHANGED page
  /\ \E o \in Outcomes(O) :
    /\ Charge(o)
    /\ LET r == Call(o, TRUE, FALSE)
       IN /\ profiles' = IF r.threw \/ r.error THEN profiles
                         ELSE profiles \cup {ProfileRow(th[p])}
          /\ th' = [th EXCEPT ![p] = CreateAfterProfile(@, r)]
  /\ UNCHANGED <<roles, sessions, store, now, nextToken, nextId, ctx, ops>>

\* mutant: every new user is given the role employee
RoleRow_M(t) == [user_id |-> t.loc.userId, role |-> "employee"]

\* the Role-assignment row createTableUser inserts
RoleRow(t) == [user_id |-> t.loc.userId, role |-> t.arg.role]

\* after the insert of the role
CreateAfterRole(t, r) ==
  IF r.threw THEN Done(t, CreateFail(MsgCreateFailed), "roleThrew")
  ELSE IF r.error THEN [t EXCEPT !.pc = "C_rollback"]
  ELSE Done(t, CreateOk(t.loc.userId, t.loc.profile.id), "ok")

CreateRole(p, O) ==
  /\ At(p, "createUser", "C_role")
  /\ UNCHANGED page
  /\ \E o \in Outcomes(O) :
    /\ Charge(o)
    /\ LET r == Call(o, TRUE, FALSE)
       IN /\ roles' = IF r.threw \/ r.error THEN roles
                      ELSE roles \cup {RoleRow(th[p])}
          /\ th' = [th EXCEPT ![p] = CreateAfterRole(@, r)]
  /\ UNCHANGED <<profiles, sessions, store, now, nextToken, nextId, ctx, ops>>

\* after the rollback delete of the profile: its answer is not read
CreateAfterRollback(t, r) ==
  IF r.threw THEN Done(t, CreateFail(MsgCreateFailed), "rollbackThrew")
  ELSE Done(t, CreateFail(MsgAssignRole),
            IF r.error THEN "rollbackError" ELSE "rolledBack")

CreateRollback(p, O) ==
  /\ At(p, "createUser", "C_rollback")
  /\ UNCHANGED page
  /\ \E o \in Outcomes(O) :
    /\ Charge(o)
    /\ LET r == Call(o, TRUE, FALSE)
       IN /\ profiles' = IF r.threw \/ r.error THEN profiles
                         ELSE {x \in profiles : x.id # th[p].loc.profile.id}
          /\ th' = [th EXCEPT ![p] = CreateAfterRollback(@, r)]
  /\ UNCHANGED <<roles, sessions, store, now, nextToken, nextId, ctx, ops>>

\* -------------------------------------------------------- updatePassword
UpdateResult(success, error) ==
  [kind |-> "update", success |-> success, error |-> error]

\* the employees the page lists: fetchData leaves the admins out
RoleOf(user_id) ==
  IF \E x \in roles : x.user_id = user_id
    THEN (CHOOSE x \in roles : x.user_id = user_id).role
    ELSE "employee"

Employees == {x \in profiles : RoleOf(x.user_id) # "admin"}

\* onSubmit of the edit dialog, with a password given
UpdateStart(p) ==
  /\ Free(p)
  /\ UNCHANGED page
  /\ \E e \in Employees, pw \in Passwords :
       th' = [th EXCEPT ![p] =
                Begin(p, "updatePassword", "U_hash",
                      [NoArg EXCEPT !.profileId = e.id, !.password = pw], NoLoc)]
  /\ ops' = ops + 1
  /\ UNCHANGED <<db, store, now, nextToken, nextId, ctx, faults>>

\* mutant: the hash that came back is dropped
UpdateAfterHash_M(t, r) ==
  IF r.threw THEN Done(t, UpdateResult(FALSE, MsgUpdateFailed), "hashThrew")
  ELSE IF r.error \/ r.data = NoHash
    THEN Done(t, UpdateResult(FALSE, MsgSecure), "hashError")
  ELSE [t EXCEPT !.pc = "U_update"]

\* after rpc('hash_password')
UpdateAfterHash(t, r) ==
  IF r.threw THEN Done(t, UpdateResult(FALSE, MsgUpdateFailed), "hashThrew")
  ELSE IF r.error \/ r.data = NoHash
    THEN Done(t, UpdateResult(FALSE, MsgSecure), "hashError")
  ELSE [t EXCEPT !.pc = "U_update", !.loc.hash = r.data]

UpdateHash(p, O) ==
  /\ At(p, "updatePassword", "U_hash")
  /\ UNCHANGED page
  /\ \E o \in Outcomes(HashOutcomes(O)) :
    /\ Charge(o)
    /\ th' = [th EXCEPT ![p] =
                UpdateAfterHash(@, HashCall(o, th[p].arg.password))]
  /\ UNCHANGED <<db, store, now, nextToken, nextId, ctx, ops>>

\* mutant: the update has lost its filter on the id
WithPassword_M(P, profileId, hash) ==
  {[x EXCEPT !.password_hash = hash] : x \in P}

\* .update({ password_hash }).eq('id', profileId)
WithPassword(P, profileId, hash) ==
  {IF x.id = profileId THEN [x EXCEPT !.password_hash = hash] ELSE x : x \in P}

UpdateAfterUpdate(t, r) ==
  IF r.threw THEN Done(t, UpdateResult(FALSE, MsgUpdateFailed), "updateThrew")
  ELSE IF r.error THEN Done(t, UpdateResult(FALSE, MsgRemote), "updateError")
  ELSE Done(t, UpdateResult(TRUE, ""), "ok")

UpdateUpdate(p, O) ==
  /\ At(p, "updatePassword", "U_update")
  /\ UNCHANGED page
  /\ \E o \in Outcomes(O) :
    /\ Charge(o)
    /\ LET r == Call(o, TRUE, FALSE)
       IN /\ profiles' =
               IF r.threw \/ r.error THEN profiles
               ELSE WithPassword(profiles, th[p].arg.profileId, th[p].loc.hash)
          /\ th' = [th EXCEPT ![p] = UpdateAfterUpdate(@, r)]
  /\ UNCHANGED <<roles, sessions, store, now, nextToken, nextId, ctx, ops>>

\* ------------------------------------------- handleFire and handleDelete
HandlerResult(ok) == [kind |-> "handler", ok |-> ok]

HandleFire(p, O) ==
  /\ Free(p)
  /\ UNCHANGED page
  /\ \E e \in Employees, o \in Outcomes(O) :
    /\ Charge(o)
    /\ LET r == Call(o, TRUE, FALSE)
       IN /\ e.employment_status # "fired"
          /\ profiles' =
               IF r.threw \/ r.error THEN profiles
               ELSE {IF x.id = e.id
                       THEN [x EXCEPT !.employment_status = "fired"]
                       ELSE x : x \in profiles}
          /\ th' = [th EXCEPT ![p] =
                      Done(Begin(p, "handleFire", "F_update",
                                 [NoArg EXCEPT !.profileId = e.id], NoLoc),
                           HandlerResult(~(r.threw \/ r.error)),
                           IF r.threw \/ r.error THEN "error" ELSE "ok")]
  /\ ops' = ops + 1
  /\ UNCHANGED <<roles, sessions, store, now, nextToken, nextId, ctx>>

DeleteStart(p) ==
  /\ Free(p)
  /\ UNCHANGED page
  /\ \E e \in Employees :
       th' = [th EXCEPT ![p] =
                Begin(p, "handleDelete", "D_role",
                      [NoArg EXCEPT !.profileId = e.id],
                      [NoLoc EXCEPT !.userId = e.user_id])]
  /\ ops' = ops + 1
  /\ UNCHANGED <<db, store, now, nextToken, nextId, ctx, faults>>

\* the deletes of the role and of the sessions: only a throw is noticed
DeleteAfterStep(t, r, pc) ==
  IF r.threw THEN Done(t, HandlerResult(FALSE), "threw") ELSE [t EXCEPT !.pc = pc]

DeleteRole(p, O) ==
  /\ At(p, "handleDelete", "D_role")
  /\ UNCHANGED page
  /\ \E o \in Outcomes(O) :
    /\ Charge(o)
    /\ LET r == Call(o, TRUE, FALSE)
       IN /\ roles' = IF r.threw \/ r.error THEN roles
                      ELSE {x \in roles : x.user_id # th[p].loc.userId}
          /\ th' = [th EXCEPT ![p] = DeleteAfterStep(@, r, "D_sessions")]
  /\ UNCHANGED <<profiles, sessions, store, now, nextToken, nextId, ctx, ops>>

DeleteSessions(p, O) ==
  /\ At(p, "handleDelete", "D_sessions")
  /\ UNCHANGED page
  /\ \E o \in Outcomes(O) :
    /\ Charge(o)
    /\ LET r == Call(o, TRUE, FALSE)
       IN /\ sessions' = IF r.threw \/ r.error THEN sessions
                         ELSE {x \in sessions :
                                 x.profile_id # th[p].arg.profileId}
          /\ th' = [th EXCEPT ![p] = DeleteAfterStep(@, r, "D_profile")]
  /\ UNCHANGED <<profiles, roles, store, now, nextToken, nextId, ctx, ops>>

DeleteProfile(p, O) ==
  /\ At(p, "handleDelete", "D_profile")
  /\ UNCHANGED page
  /\ \E o \in Outcomes(O) :
    /\ Charge(o)
    /\ LET r == Call(o, TRUE, FALSE)
       IN /\ profiles' = IF r.threw \/ r.error THEN profiles
                         ELSE {x \in profiles : x.id # th[p].arg.profileId}
          /\ th' = [th EXCEPT ![p] =
                      Done(@, HandlerResult(~(r.threw \/ r.error)),
                           IF r.threw \/ r.error THEN "error" ELSE "ok")]
  /\ UNCHANGED <<roles, sessions, store, now, nextToken, nextId, ctx, ops>>

\* ------------------------------------------- employees page: the next id
\* Strings are sequences of characters.
DigitChars == <<"0", "1", "2", "3", "4", "5", "6", "7", "8", "9">>
IsDigit(c) == \E i \in 1..Len(DigitChars) : DigitChars[i] = c
DigitValue(c) == (CHOOSE i \in 1..Len(DigitChars) : DigitChars[i] = c) - 1

\* String.prototype.startsWith
StartsWith(s, prefix) ==
  Len(s) >= Len(prefix) /\ SubSeq(s, 1, Len(prefix)) = prefix

\* String.prototype.split, for a separator of one character
RECURSIVE Split(_, _)
Split(s, sep) ==
  IF \A i \in 1..Len(s) : s[i] # sep THEN << s >>
  ELSE LET i == CHOOSE k \in 1..Len(s) :
                  s[k] = sep /\ \A j \in 1..(k - 1) : s[j] # sep
       IN << SubSeq(s, 1, i - 1) >> \o Split(SubSeq(s, i + 1, Len(s)), sep)

\* the longest prefix of s made of digits
RECURSIVE DigitsPrefix(_)
DigitsPrefix(s) ==
  IF s = << >> \/ ~IsDigit(Head(s)) THEN << >>
  ELSE << Head(s) >> \o DigitsPrefix(Tail(s))

\* the number a string of digits writes in base 10
RECURSIVE Decimal(_)
Decimal(d) ==
  IF d = << >> THEN 0
  ELSE 10 * Decimal(SubSeq(d, 1, Len(d) - 1)) + DigitValue(d[Len(d)])

\* parseInt(s, 10): leading white space is skipped, a sign is read, then the
\* digits up to the first character that is not one; NaN when there is none
ParseInt(s) ==
  LET t == TrimStart(s)
      signed == t # << >> /\ Head(t) \in {"+", "-"}
      d == DigitsPrefix(IF signed THEN Tail(t) ELSE t)
  IN IF d = << >> THEN [nan |-> TRUE, value |-> 0]
     ELSE [nan |-> FALSE,
           value |-> IF signed /\ Head(t) = "-" THEN 0 - Decimal(d)
                     ELSE Decimal(d)]

\* Math.max(...ns), ns not empty
MathMax(ns) ==
  CHOOSE n \in {ns[i] : i \in 1..Len(ns)} : \A i \in 1..Len(ns) : ns[i] <= n

\* String(n), n >= 0
RECURSIVE StringOf(_)
StringOf(n) ==
  IF n < 10 THEN << DigitChars[n + 1] >>
  ELSE StringOf(n \div 10) \o << DigitChars[(n % 10) + 1] >>

\* String.prototype.padStart
RECURSIVE PadStart(_, _, _)
PadStart(s, targetLength, padString) ==
  IF Len(s) >= targetLength THEN s
  ELSE PadStart(<< padString >> \o s, targetLength, padString)

\* ids is employees.map(e => e.employee_id); null and '' are both << >>
generateNextEmployeeId(ids) ==
  LET prefix == <<"H", "T", "E">>
      HasPrefix(id) == id # << >> /\ StartsWith(id, prefix \o <<"-">>)
      numbered == SelectSeq(ids, HasPrefix)
      parsed == [i \in 1..Len(numbered) |-> ParseInt(Split(numbered[i], "-")[2])]
      IsNumber(n) == ~n.nan
      numbers == SelectSeq(parsed, IsNumber)
      existingIds == [i \in 1..Len(numbers) |-> numbers[i].value]
      maxNum == IF Len(existingIds) > 0 THEN MathMax(existingIds) ELSE 0
      nextNum == maxNum + 1
  IN prefix \o <<"-">> \o PadStart(StringOf(nextNum), 3, "0")

\* the Add Employee button: the form is reset with a proposed employee_id
OpenAddDialog ==
  /\ nextEmployeeId = NoEmployeeId
  /\ nextEmployeeId' = generateNextEmployeeId(employeeIds)
  /\ UNCHANGED <<db, store, now, nextToken, nextId, ctx, ops, faults, th,
                 employeeIds>>

\* the dialog is closed and the form keeps nothing of the proposal
CloseAddDialog ==
  /\ nextEmployeeId # NoEmployeeId
  /\ nextEmployeeId' = NoEmployeeId
  /\ UNCHANGED <<db, store, now, nextToken, nextId, ctx, ops, faults, th,
                 employeeIds>>

\* -------------------------------------------------------------- AuthGate
\* the value AuthProvider hands to its consumers
ContextValue == [authUser |-> authUser, loading |-> loading]

Undefined == [undefined |-> TRUE]

\* const { user, loading } = useAuth(): a key the value lacks reads undefined
Destructure(value, key) ==
  IF key \in DOMAIN value THEN value[key] ELSE Undefined

\* a user is truthy unless null / undefined
Truthy(v) == v # Undefined /\ v # NoUser

AuthGate(value) ==
  IF Destructure(value, "loading") = TRUE THEN "nothing"
  ELSE IF ~Truthy(Destructure(value, "user")) THEN "navigate:/login"
  ELSE "outlet"

\* ------------------------------------------------------------ the program
\* the steps of the calls, but for the rollback of createTableUser
Calls(p, O) ==
  \/ LoginStart(p)
  \/ LoginProfile(p, O)
  \/ LoginVerify(p, O)
  \/ LoginRole(p, O)
  \/ LoginInsert(p, O)
  \/ SignOutStart(p)
  \/ SignOutDelete(p, O)
  \/ GetStart(p)
  \/ GetSession(p, O)
  \/ GetExpire(p, O)
  \/ GetProfile(p, O)
  \/ GetRole(p, O)
  \/ CreateStart(p)
  \/ CreateExists(p, O)
  \/ CreateHash(p, O)
  \/ CreateProfile(p, O)
  \/ CreateRole(p, O)
  \/ UpdateStart(p)
  \/ UpdateHash(p, O)
  \/ UpdateUpdate(p, O)
  \/ HandleFire(p, O)
  \/ DeleteStart(p)
  \/ DeleteRole(p, O)
  \/ DeleteSessions(p, O)
  \/ DeleteProfile(p, O)

\* One caller and a remote service that answers every call.  The rollback of
\* createTableUser follows a role insert that faulted, so it has no step here.
Next == Tick \/ \E p \in Solo : Calls(p, Nominal)
Spec == Init /\ [][Next]_vars

\* One caller and a remote service whose calls may fault.
NextF == Tick \/ \E p \in Solo : (Calls(p, Faulty) \/ CreateRollback(p, Faulty))
SpecF == Init /\ [][NextF]_vars

\* the steps of login, logout and the session check
AuthCalls(p, O) ==
  \/ LoginStart(p)
  \/ LoginProfile(p, O)
  \/ LoginVerify(p, O)
  \/ LoginRole(p, O)
  \/ LoginInsert(p, O)
  \/ SignOutStart(p)
  \/ SignOutDelete(p, O)
  \/ GetStart(p)
  \/ GetSession(p, O)
  \/ GetExpire(p, O)
  \/ GetProfile(p, O)
  \/ GetRole(p, O)

\* Two callers whose calls overlap: a call is suspended at each await and the
\* other caller's steps run in between.  The remote service answers every call.
NextC == Tick \/ \E p \in Procs : AuthCalls(p, Nominal)
SpecC == Init /\ [][NextC]_vars

\* the steps of login and of the employees page: createTableUser,
\* updatePassword, handleDelete
PageCalls(p, O) ==
  \/ LoginStart(p)
  \/ LoginProfile(p, O)
  \/ LoginVerify(p, O)
  \/ LoginRole(p, O)
  \/ LoginInsert(p, O)
  \/ CreateStart(p)
  \/ CreateExists(p, O)
  \/ CreateHash(p, O)
  \/ CreateProfile(p, O)
  \/ CreateRole(p, O)
  \/ UpdateStart(p)
  \/ UpdateHash(p, O)
  \/ UpdateUpdate(p, O)
  \/ DeleteStart(p)
  \/ DeleteRole(p, O)
  \/ DeleteSessions(p, O)
  \/ DeleteProfile(p, O)

\* Two callers (two admins at the employees page, or an admin and a user who
\* logs in) whose calls overlap.  The remote service answers every call.
NextP == \E p \in Procs : PageCalls(p, Nominal)
SpecP == Init /\ [][NextP]_vars

\* The employee ids a loaded list may hold: null, ids of the proposed format,
\* an id of another scheme, and ids typed by hand after the prefix (the form
\* takes any text that is not empty).
LoadedIds ==
  { << >>,
    <<"H", "T", "E", "-", "0", "0", "1">>,
    <<"H", "T", "E", "-", "0", "0", "2">>,
    <<"H", "T", "E", "-", "0", "1", "2">>,
    <<"H", "T", "E", "-", "9", "9", "9">>,
    <<"H", "T", "E", "-", "7">>,
    <<"E", "M", "P", "-", "5">>,
    <<"H", "T", "E", "-">>,
    <<"H", "T", "E", "-", "x">>,
    <<"H", "T", "E", "-", "9", "x">>,
    <<"H", "T", "E", "-", "1", "-", "2">> }

LoadedLists ==
  UNION { [1..n -> LoadedIds] : n \in 0..MaxLoaded }

\* The employees page with its list loaded, at rest.
InitG ==
  /\ profiles = SeedProfiles
  /\ roles = SeedRoles
  /\ sessions = {}
  /\ store = NoStore
  /\ now = 0
  /\ nextToken = 1
  /\ nextId = 3
  /\ authUser = NoUser
  /\ loading = TRUE
  /\ mounted = FALSE
  /\ ops = 0
  /\ faults = 0
  /\ th = [p \in Procs |-> Idle]
  /\ employeeIds \in LoadedLists
  /\ nextEmployeeId = NoEmployeeId

NextG == OpenAddDialog \/ CloseAddDialog
SpecG == InitG /\ [][NextG]_vars

\* the remote calls of the session check
GetSteps(p, O) ==
  \/ GetSession(p, O)
  \/ GetExpire(p, O)
  \/ GetProfile(p, O)
  \/ GetRole(p, O)

\* One caller, a remote service whose calls may fault, and every remote call
\* of a session check answered in the end (by its data, by an error or by the
\* transport's rejection).
SpecL == SpecF /\ \A p \in Solo : WF_vars(GetSteps(p, Faulty))

\* The tables and the session store as handleDelete can leave them.  Its
\* deletes of the role and of the sessions are not checked, and the store of
\* the deleted employee's browser is out of its reach: a Profile whose role is
\* gone but whose Session and Profile rows stayed (the later deletes failed),
\* a Session whose Profile is gone (the delete of the sessions failed), and a
\* stored token whose Session is gone.
DegradedProfiles ==
  SeedProfiles \cup
    { [id |-> 8, user_id |-> UserIdOf(8), email |-> <<"d">>, first_name |-> "No",
       last_name |-> "Role", password_hash |-> HashPassword("p1"),
       employment_status |-> "active"] }

DegradedSessions ==
  { [session_token |-> 90, profile_id |-> 8, expires_at |-> SESSION_DAYS],
    [session_token |-> 91, profile_id |-> 9, expires_at |-> SESSION_DAYS] }

DegradedStores ==
  { [token |-> 90, user_id |-> UserIdOf(8)],
    [token |-> 91, user_id |-> UserIdOf(9)],
    [token |-> 92, user_id |-> UserIdOf(8)] }

InitD ==
  /\ profiles = DegradedProfiles
  /\ roles = SeedRoles
  /\ sessions = DegradedSessions
  /\ store \in DegradedStores
  /\ now = 0
  /\ nextToken = 1
  /\ nextId = 3
  /\ authUser = NoUser
  /\ loading = TRUE
  /\ mounted = FALSE
  /\ ops = 0
  /\ faults = 0
  /\ th = [p \in Procs |-> Idle]
  /\ employeeIds = << >>
  /\ nextEmployeeId = NoEmployeeId

\* One caller and a remote service that answers every call, from such tables.
SpecD == InitD /\ [][Next]_vars


\* ================================================================ claims
DoneOp(p, op) == th[p].pc = "done" /\ th[p].op = op
DoneGet(p) == th[p].pc = "done" /\ th[p].op \in Getters

\* u is the view of a Profile row and of its Role-assignment row
ViewOfProfileAndRole(u) ==
  \E P \in profiles, R \in roles :
    /\ R.user_id = P.user_id
    /\ u.id = P.user_id /\ u.profileId = P.id /\ u.email = P.email
    /\ u.firstName = P.first_name /\ u.lastName = P.last_name
    /\ u.role = R.role

\* C1: a getSessionUser() that a caller runs right after its login() returned
\* success, with the clock before the session's expiry, returns the view that
\* login returned, and that view is the Profile's user_id, id, email,
\* first_name, last_name and the role of its Role assignment.
C1_SessionAfterLogin ==
  \A p \in Procs :
    (DoneGet(p) /\ th[p].prev.op = "login" /\ now < th[p].prev.expiresAt)
      => /\ th[p].result.user = th[p].prev.user
         /\ ViewOfProfileAndRole(th[p].result.user)

C1_Witness ==
  \E p \in Procs :
    /\ DoneGet(p) /\ th[p].prev.op = "login" /\ now < th[p].prev.expiresAt
    /\ th[p].result.user.role = "admin"
    /\ th[p].result.user.id = UserIdOf(1)

\* C2: getSessionUser() returns a user only when the session store held a
\* token that matches a Session row whose expires_at was not in the past when
\* it was checked, and the user is the Profile that row's profile_id names; in
\* every other state it returns none.
C2_UserOnlyForValidSession ==
  \A p \in Procs :
    (DoneGet(p) /\ th[p].result.user # NoUser)
      => /\ th[p].pre.store.token # 0
         /\ th[p].pre.now <= th[p].loc.checkedAt /\ th[p].loc.checkedAt <= now
         /\ \E s \in sessions :
              /\ s.session_token = th[p].pre.store.token
              /\ ~(s.expires_at < th[p].loc.checkedAt)
              /\ \E P \in profiles :
                   /\ P.id = s.profile_id
                   /\ th[p].result.user.profileId = P.id
                   /\ th[p].result.user.id = P.user_id
                   /\ th[p].result.user.email = P.email
                   /\ th[p].result.user.firstName = P.first_name
                   /\ th[p].result.user.lastName = P.last_name

C2_Witness ==
  \E p \in Procs :
    /\ DoneGet(p) /\ th[p].result.user # NoUser
    /\ th[p].loc.checkedAt = th[p].loc.expiresAt

\* C3: a login() that returns success = false, whichever way it failed, leaves
\* the Session table and both keys of the session store as they were when it
\* was called.
C3_FailedLoginChangesNothing ==
  \A p \in Procs :
    (DoneOp(p, "login") /\ ~th[p].result.success)
      => /\ sessions = th[p].pre.sessions
         /\ store = th[p].pre.store

C3_Witness ==
  \E p \in Procs :
    /\ DoneOp(p, "login") /\ ~th[p].result.success
    /\ th[p].loc.branch = "sessionError"
    /\ th[p].result.error = MsgSessionFailed
    /\ th[p].pre.store.token # 0

\* C4: a getSessionUser() that follows a logout() that completed returns none,
\* whether or not a token was stored and whether or not the Session row was
\* there (or was deleted) at the logout.
C4_NoUserAfterLogout ==
  \A p \in Procs :
    (DoneGet(p) /\ th[p].prev.op = "signOut") => th[p].result = UserResult(NoUser)

C4_Witness ==
  \E p \in Procs :
    /\ DoneGet(p) /\ th[p].prev.op = "signOut"
    /\ th[p].prev.branch = "deleteError"
    /\ \E s \in sessions :
         s.session_token = th[p].prev.token /\ ~(s.expires_at < now)

\* the stored token matched a Session row that had expired when the call started
ExpiredAtStart(t) ==
  /\ t.pre.store.token # 0
  /\ \E s \in t.pre.sessions :
       s.session_token = t.pre.store.token /\ s.expires_at < t.pre.now

\* C5: when the stored token matches a Session row whose expires_at is in the
\* past, getSessionUser() returns none, no Session row has that token
\* afterwards and both keys of the session store are cleared; a second
\* getSessionUser() right after returns none as well, and does not throw.
C5_ExpiredSessionReaped ==
  \A p \in Procs :
    /\ (DoneGet(p) /\ ExpiredAtStart(th[p]))
         => /\ th[p].result = UserResult(NoUser)
            /\ th[p].loc.branch = "expired"
            /\ ~\E s \in sessions : s.session_token = th[p].pre.store.token
            /\ store = ClearedStore
    /\ (DoneGet(p) /\ th[p].prev.op \in Getters)
         => /\ th[p].prev.branch = "expired"
            /\ th[p].result = UserResult(NoUser)
            /\ ~\E s \in sessions : s.session_token = th[p].prev.token

C5_Witness ==
  \E p \in Procs :
    /\ DoneGet(p) /\ th[p].prev.op \in Getters
    /\ th[p].prev.token # 0
    /\ th[p].result = UserResult(NoUser)

\* C6: a createUser() called with an email whose normalized form is the email
\* of an existing Profile never creates a second Profile row nor a
\* Role-assignment row.
C6_NoSecondProfile ==
  \A p \in Procs :
    (/\ DoneOp(p, "createUser")
     /\ \E P \in th[p].pre.profiles : P.email = NormalizeEmail(th[p].arg.email))
      => /\ profiles = th[p].pre.profiles
         /\ roles = th[p].pre.roles

\* C7: when the Role-assignment insert of createUser() fails, the call returns
\* 'Failed to assign role' and no Profile row with that email exists once it
\* has returned.
C7_RoleFailureRollsBack ==
  \A p \in Procs :
    (/\ DoneOp(p, "createUser")
     /\ th[p].loc.branch \in {"roleThrew", "rolledBack", "rollbackError",
                              "rollbackThrew"})
      => /\ th[p].result = CreateFail(MsgAssignRole)
         /\ ~\E P \in profiles : P.email = NormalizeEmail(th[p].arg.email)

\* the email of the call is the email of no Profile
UnknownEmail(t) ==
  ~\E P \in t.pre.profiles : P.email = NormalizeEmail(t.arg.email)

\* the email of the call is the email of a Profile whose password is another
WrongPassword(t) ==
  \E P \in t.pre.profiles :
    /\ P.email = NormalizeEmail(t.arg.email)
    /\ P.password_hash # NoHash
    /\ ~VerifyPassword(t.arg.password, P.password_hash)

\* C8: a login() with an email that no Profile has and a login() with a wrong
\* password for an existing Profile return the same result, success = false
\* with 'Invalid email or password', and both leave the Session table and the
\* session store as they were.
C8_UnknownEmailLikeWrongPassword ==
  \A p \in Procs :
    (DoneOp(p, "login") /\ (UnknownEmail(th[p]) \/ WrongPassword(th[p])))
      => /\ th[p].result = LoginFail(MsgInvalid)
         /\ sessions = th[p].pre.sessions
         /\ store = th[p].pre.store

C8_Witness ==
  \E p \in Procs :
    /\ DoneOp(p, "login") /\ WrongPassword(th[p])
    /\ th[p].arg.email = <<" ", "A">>
    /\ th[p].pre.store.token # 0

\* C9: the route guard renders nothing while the auth context is loading; once
\* loading is false it redirects to the login entry point when the context
\* holds no authenticated user, and renders the protected subtree when it
\* holds one.
C9_GateFollowsAuthUser ==
  AuthGate(ContextValue) =
    IF loading THEN "nothing"
    ELSE IF authUser = NoUser THEN "navigate:/login"
    ELSE "outlet"

\* C10: every logout() clears both keys of the session store: with no token
\* stored, with no matching Session row, and when the delete of the Session
\* row faults.
C10_LogoutAlwaysClears ==
  \A p \in Procs :
    (th[p].pc = "done" /\ th[p].op = "signOut") => store = ClearedStore

\* the operations of the auth module, under the names of their callers
AuthOps ==
  {"login", "signOut", "refreshUser", "initializeAuth", "createUser",
   "updatePassword"}

\* C11: no operation of the auth module (login, logout, getSessionUser,
\* createUser, updatePassword) lets the fault of a remote call escape as an
\* exception: whatever step faults, the operation completes and returns its
\* result.
C11_NoFaultEscapes ==
  \A p \in Procs :
    (th[p].pc = "done" /\ th[p].op \in AuthOps) => th[p].result # Threw

\* a remote call of the caller's call has faulted (one caller)
FaultedInCall(t) == faults > t.pre.faults

\* C12: when a remote call made by getSessionUser() faults (the session
\* lookup, the delete of the expired row, the profile lookup or the role
\* lookup), getSessionUser() returns none.
C12_FaultMeansNone ==
  \A p \in Procs :
    (DoneGet(p) /\ FaultedInCall(th[p])) => th[p].result = UserResult(NoUser)

\* C13: a login() that returns success has inserted exactly one Session row,
\* whose profile_id is the id of the Profile that was authenticated and whose
\* expires_at is a time of the call plus 7 days, and the session store then
\* holds that row's token and the Profile's user_id.
C13_OneSessionPerLogin ==
  \A p \in Procs :
    (DoneOp(p, "login") /\ th[p].result.success)
      => \E s \in sessions :
           /\ sessions = th[p].pre.sessions \cup {s}
           /\ s \notin th[p].pre.sessions
           /\ \E P \in profiles :
                /\ P.email = NormalizeEmail(th[p].arg.email)
                /\ VerifyPassword(th[p].arg.password, P.password_hash)
                /\ s.profile_id = P.id
                /\ th[p].result.user.profileId = P.id
                /\ store = [token |-> s.session_token, user_id |-> P.user_id]
           /\ \E c \in th[p].pre.now .. now : s.expires_at = c + SESSION_DAYS

C13_Witness ==
  \E p \in Procs :
    /\ DoneOp(p, "login") /\ th[p].result.success
    /\ th[p].pre.sessions # {}
    /\ th[p].pre.store.token # 0
    /\ th[p].pre.now > 0
    /\ store.token # th[p].pre.store.token

\* C14: once handleFire has set a Profile's employment_status to 'fired', a
\* login() with that Profile's email and password does not return success and
\* a getSessionUser() with a token of a Session of that Profile returns none.
C14_FiredCannotAccess ==
  \A p \in Procs :
    /\ (DoneOp(p, "login") /\ th[p].result.success)
         => \A P \in th[p].pre.profiles :
              P.id = th[p].result.user.profileId => P.employment_status # "fired"
    /\ (DoneGet(p) /\ th[p].result.user # NoUser)
         => \A P \in th[p].pre.profiles :
              P.id = th[p].result.user.profileId => P.employment_status # "fired"

C15_SignOutNotUndone ==
  \A p, q \in Procs :
    (/\ DoneOp(q, "signOut")
     /\ DoneGet(p)
     /\ th[p].pre.ops < th[q].pre.ops)
      => authUser = NoUser

\* the email and the password of the call are those of a Profile with a role
ValidCredentials(t) ==
  \E P \in t.pre.profiles :
    /\ P.email = NormalizeEmail(t.arg.email)
    /\ VerifyPassword(t.arg.password, P.password_hash)
    /\ \E R \in t.pre.roles : R.user_id = P.user_id

\* q's call started right after p's, while p's login had inserted nothing yet
Overlapped(p, q) ==
  /\ th[q].pre.ops = th[p].pre.ops + 1
  /\ th[q].pre.sessions = th[p].pre.sessions
  /\ th[q].pre.store = th[p].pre.store

C16_BothSucceed ==
  \A p, q \in Procs :
    (/\ DoneOp(p, "login") /\ DoneOp(q, "login")
     /\ Overlapped(p, q)
     /\ ValidCredentials(th[p]) /\ ValidCredentials(th[q])
     /\ NormalizeEmail(th[p].arg.email) = NormalizeEmail(th[q].arg.email))
      => /\ th[p].result.success /\ th[q].result.success
         /\ th[p].loc.token # th[q].loc.token
         /\ SessionRow(th[p]) \in sessions /\ SessionRow(th[q]) \in sessions
         /\ sessions = th[p].pre.sessions \cup {SessionRow(th[p]), SessionRow(th[q])}
         /\ store.token \in {th[p].loc.token, th[q].loc.token}

C16_LastWriterWins ==
  \A p \in Procs :
    (/\ th[p].op = "login" /\ th[p].pc = "L_insert"
     /\ th'[p].pc = "done" /\ th'[p].result.success)
      => /\ SessionRow(th[p]) \notin sessions
         /\ sessions' = sessions \cup {SessionRow(th[p])}
         /\ store' = [token |-> th[p].loc.token,
                      user_id |-> th[p].loc.profile.user_id]

\* C16: two login() calls for one account with the right password, interleaved
\* at any await, both return success and each inserts a Session row of its
\* own, with a token of its own; each one that persists overwrites the session
\* store, which so holds the token of the call that persisted last.
C16_ConcurrentLogins == []C16_BothSucceed /\ [][C16_LastWriterWins]_vars

C16_Witness ==
  \E p, q \in Procs :
    /\ DoneOp(p, "login") /\ DoneOp(q, "login")
    /\ Overlapped(p, q)
    /\ th[p].result.success /\ th[q].result.success
    /\ th[p].result.user.id = th[q].result.user.id
    /\ th[p].loc.token < th[q].loc.token
    /\ store.token = th[p].loc.token

\* the mount effect has started and its session check has not returned
InitialCheckRunning ==
  \E p \in Procs : th[p].op = "initializeAuth" /\ th[p].pc # "done"

C18_LoadingWhileChecking == loading <=> (~mounted \/ InitialCheckRunning)

C18_LoadingEnds ==
  /\ (~loading => ~loading')
  /\ (loading /\ ~loading')
       => \E p \in Procs :
            /\ th'[p].op = "initializeAuth" /\ th'[p].pc = "done"
            /\ authUser' = th'[p].result.user

\* C18: loading is true from the mount until the first getSessionUser() has
\* returned and its result is the cached user; it is false from then on,
\* whatever the result (a user, none, a fault): once the auth context is
\* mounted, loading becomes false in the end.
C18_LoadingBecomesFalse ==
  /\ []C18_LoadingWhileChecking
  /\ [][C18_LoadingEnds]_vars
  /\ (mounted ~> ~loading)

C18_Witness ==
  \E p \in Procs :
    /\ DoneOp(p, "initializeAuth")
    /\ FaultedInCall(th[p])
    /\ th[p].loc.branch = "profileThrew"
    /\ ~loading

\* the steps of login, in their order
LoginOrder ==
  {<<"L_profile", "L_verify">>, <<"L_verify", "L_role">>,
   <<"L_role", "L_insert">>, <<"L_insert", "done">>}

C19_StepOfLogin(p) ==
  (th[p].op = "login" /\ th[p].pc # "done" /\ th'[p] # th[p])
    => /\ th'[p].op = "login"
       /\ \/ <<th[p].pc, th'[p].pc>> \in LoginOrder
          \/ th'[p].pc = "done" /\ ~th'[p].result.success
       /\ (th[p].pc # "L_insert" \/ ~th'[p].result.success)
            => sessions' = sessions /\ store' = store
       /\ sessions' # sessions
            => /\ VerifyPassword(th[p].arg.password,
                                 th[p].loc.profile.password_hash)
               /\ th[p].loc.profile.email = NormalizeEmail(th[p].arg.email)
               /\ \E R \in roles :
                    /\ R.user_id = th[p].loc.profile.user_id
                    /\ R.role = th[p].loc.role
       /\ store' # store
            => /\ SessionRow(th[p]) \in sessions' \ sessions
               /\ store'.token = th[p].loc.token

\* C19: the steps of one login() run in the order profile lookup, password
\* verification, role lookup, Session insert, session-store write, each after
\* the one before it succeeded: a Session row is inserted only when the
\* verification returned true and a role was found, and the session store is
\* written only when the Session row was inserted.
C19_LoginStepsInOrder == [][\A p \in Procs : C19_StepOfLogin(p)]_vars

C19_Witness ==
  \E p \in Procs :
    /\ DoneOp(p, "login") /\ th[p].result.success
    /\ SessionRow(th[p]) \in sessions
    /\ store.token = th[p].loc.token
    /\ th[p].loc.role = "hr"

C20_OneRolePerNewUser ==
  /\ \A p \in Procs :
       (DoneOp(p, "createUser") /\ th[p].result.success)
         => /\ {R \in roles : R.user_id = th[p].result.userId}
                 = {[user_id |-> th[p].result.userId, role |-> th[p].arg.role]}
            /\ th[p].arg.role \in {"hr", "employee"}
  /\ \A R \in roles : R.role = "admin" => R \in SeedRoles

C20_RolesChangedBy ==
  roles' # roles
    => \E p \in Procs :
         \/ th[p].op = "createUser" /\ th[p].pc = "C_role"
         \/ th[p].op = "handleDelete" /\ th[p].pc = "D_role"

\* C20: a createUser() that returns success leaves exactly one Role-assignment
\* row for the new user_id, with the role asked for, hr or employee and never
\* admin; login, logout, getSessionUser and updatePassword never insert,
\* change or delete a Role-assignment row.
C20_RolesOnlyFromCreateUser == []C20_OneRolePerNewUser /\ [][C20_RolesChangedBy]_vars

C20_Witness ==
  \E p \in Procs :
    /\ DoneOp(p, "createUser") /\ th[p].result.success
    /\ th[p].arg.role = "hr"
    /\ [user_id |-> th[p].result.userId, role |-> "hr"] \in roles
    /\ Cardinality(roles) = Cardinality(th[p].pre.roles) + 1

\* the Profiles that createUser stored
Created(P) == {x \in P : \A y \in SeedProfiles : x.id # y.id}

\* C21: a login() with any variant of the email given to a createUser() that
\* succeeded, differing in letter case and surrounding whitespace only,
\* resolves to the Profile createUser stored: createUser stores the email
\* lowercased and trimmed, and login looks the lowercased, trimmed email up.
C21_LoginFindsCreatedProfile ==
  \A p \in Procs :
    /\ (DoneOp(p, "createUser") /\ th[p].result.success)
         => \E P \in profiles :
              /\ P.id = th[p].result.profileId
              /\ P.email = NormalizeEmail(th[p].arg.email)
              /\ \A e \in Emails :
                   NormalizeEmail(e) = NormalizeEmail(th[p].arg.email)
                     => P.email = NormalizeEmail(e)
    /\ DoneOp(p, "login")
         => \A P \in Created(th[p].pre.profiles) :
              P.email = NormalizeEmail(th[p].arg.email)
                => /\ th[p].loc.profile = P
                   /\ th[p].loc.branch \in {"ok", "wrongPassword"}
                   /\ th[p].result.success => th[p].result.user.profileId = P.id

C21_Witness ==
  \E p \in Procs :
    /\ DoneOp(p, "login") /\ th[p].result.success
    /\ th[p].arg.email = <<"C", " ">>
    /\ th[p].result.user.email = <<"c">>
    /\ th[p].loc.profile \in Created(profiles)

\* C22: when the session store holds a token that matches no Session row,
\* getSessionUser() clears both keys of the session store and returns none.
C22_StaleTokenCleared ==
  \A p \in Procs :
    (/\ DoneGet(p)
     /\ th[p].pre.store.token # 0
     /\ ~\E s \in th[p].pre.sessions :
          s.session_token = th[p].pre.store.token)
      => /\ th[p].result = UserResult(NoUser)
         /\ store = ClearedStore
         /\ sessions = th[p].pre.sessions

C22_Witness ==
  \E p \in Procs :
    /\ DoneGet(p)
    /\ th[p].pre.store.token # 0
    /\ th[p].pre.sessions # {}
    /\ ~\E s \in th[p].pre.sessions : s.session_token = th[p].pre.store.token
    /\ th[p].loc.branch = "noSession"
    /\ store = ClearedStore

\* the Session row of the stored token when the call started, not expired when
\* the call looked at it
LiveSessionAtStart(t, s) ==
  /\ s \in t.pre.sessions
  /\ t.pre.store.token # 0
  /\ s.session_token = t.pre.store.token
  /\ ~(s.expires_at < t.loc.checkedAt)

\* C23: when a valid, unexpired session resolves to a Profile that has no
\* Role-assignment row, getSessionUser() returns the view of that Profile
\* with the role 'employee', not none.
C23_MissingRoleIsEmployee ==
  \A p \in Procs :
    DoneGet(p)
      => \A s \in th[p].pre.sessions, P \in th[p].pre.profiles :
           (/\ LiveSessionAtStart(th[p], s)
            /\ P.id = s.profile_id
            /\ ~\E R \in th[p].pre.roles : R.user_id = P.user_id)
             => th[p].result = UserResult(UserView(P, "employee"))

C23_Witness ==
  \E p \in Procs :
    /\ DoneGet(p)
    /\ th[p].result.user # NoUser
    /\ th[p].result.user.role = "employee"
    /\ ~\E R \in roles : R.user_id = th[p].result.user.id
    /\ th[p].loc.checkedAt = th[p].loc.expiresAt

\* C29: when the stored token matches an unexpired Session row whose
\* profile_id is the id of no Profile, getSessionUser() returns none and
\* leaves that Session row and both keys of the session store as they were.
C29_OrphanSessionLeftAlone ==
  \A p \in Procs :
    DoneGet(p)
      => \A s \in th[p].pre.sessions :
           (/\ LiveSessionAtStart(th[p], s)
            /\ ~\E P \in th[p].pre.profiles : P.id = s.profile_id)
             => /\ th[p].result = UserResult(NoUser)
                /\ s \in sessions
                /\ sessions = th[p].pre.sessions
                /\ store = th[p].pre.store

C29_Witness ==
  \E p \in Procs :
    /\ DoneGet(p)
    /\ th[p].loc.branch = "noProfile"
    /\ store.token # 0
    /\ \E s \in sessions :
         /\ s.session_token = store.token
         /\ ~\E P \in profiles : P.id = s.profile_id

\* P is the one Profile the email of the call names
NamedProfile(t, P) ==
  /\ P \in t.pre.profiles
  /\ \A Q \in t.pre.profiles :
       Q.email = NormalizeEmail(t.arg.email) <=> Q = P

\* C24: login() tells a broken account from bad credentials: for a Profile
\* with no password_hash it returns the 'account not configured' error for
\* every password, without calling the verification procedure; for a Profile
\* with the right password and no Role-assignment row it returns 'User role
\* not found'; in neither case 'Invalid email or password'.
C24_IntegrityFaultsDistinct ==
  \A p \in Procs :
    /\ (th[p].op = "login" /\ th[p].pc = "L_verify")
         => th[p].loc.profile.password_hash # NoHash
    /\ (DoneOp(p, "login") /\ ~FaultedInCall(th[p]))
         => \A P \in th[p].pre.profiles :
              NamedProfile(th[p], P)
                => /\ P.password_hash = NoHash
                        => /\ th[p].result = LoginFail(MsgNotConfigured)
                           /\ th[p].loc.branch = "noHash"
                   /\ (/\ P.password_hash # NoHash
                        /\ VerifyPassword(th[p].arg.password, P.password_hash)
                        /\ ~\E R \in th[p].pre.roles : R.user_id = P.user_id)
                        => th[p].result = LoginFail(MsgRoleNotFound)

C24_Witness ==
  \E p \in Procs :
    /\ DoneOp(p, "login") /\ ~FaultedInCall(th[p])
    /\ th[p].result = LoginFail(MsgRoleNotFound)
    /\ VerifyPassword(th[p].arg.password, th[p].loc.profile.password_hash)
    /\ ~\E R \in roles : R.user_id = th[p].loc.profile.user_id

\* the operations that hash a password
Hashers == {"createUser", "updatePassword"}

\* C25 as stated: when the hashing call faults or returns an empty result,
\* createUser() and updatePassword() return 'Failed to secure password' and
\* write nothing.
C25_HashFaultSecureMessage ==
  \A p \in Procs :
    (/\ th[p].pc = "done" /\ th[p].op \in Hashers
     /\ th[p].loc.branch \in {"hashError", "hashThrew"})
      => /\ ~th[p].result.success
         /\ th[p].result.error = MsgSecure
         /\ profiles = th[p].pre.profiles
         /\ roles = th[p].pre.roles

\* the message of the catch-all of the operation
CatchAllMessage(op) ==
  IF op = "createUser" THEN MsgCreateFailed ELSE MsgUpdateFailed

\* C25, amended: when the hashing call resolves with an error or with an
\* empty result, createUser() and updatePassword() return 'Failed to secure
\* password'; when the call rejects, they return the message of their
\* catch-all ('Failed to create user', 'Failed to update password'); in every
\* one of these cases they return success = false and write nothing, and they
\* go past the hashing with a hash only.
C25_HashFaultWritesNothing ==
  \A p \in Procs :
    /\ (th[p].op \in Hashers /\ th[p].pc \notin {"C_exists", "C_hash", "U_hash"}
         /\ th[p].loc.branch \notin {"existsThrew", "registered", "hashError",
                                     "hashThrew"})
         => th[p].loc.hash # NoHash
    /\ (/\ th[p].pc = "done" /\ th[p].op \in Hashers
         /\ th[p].loc.branch \in {"hashError", "hashThrew"})
      => /\ ~th[p].result.success
         /\ th[p].result.error =
              IF th[p].loc.branch = "hashError" THEN MsgSecure
              ELSE CatchAllMessage(th[p].op)
         /\ FaultedInCall(th[p])
         /\ profiles = th[p].pre.profiles
         /\ roles = th[p].pre.roles

C25_Witness ==
  \E p \in Procs :
    /\ DoneOp(p, "updatePassword")
    /\ th[p].loc.branch = "hashThrew"
    /\ th[p].result.error = MsgUpdateFailed
    /\ Created(profiles) # {}

C26_NoTokenNoDelete ==
  \A p \in Procs :
    /\ (th[p].op = "signOut" /\ th[p].pc = "O_delete")
         => th[p].pre.store.token # 0
    /\ (DoneOp(p, "signOut") /\ th[p].pre.store.token = 0)
         => /\ th[p].loc.branch = "noToken"
            /\ sessions = th[p].pre.sessions
            /\ store = ClearedStore

C26_SecondLogout ==
  \A p \in Procs :
    (DoneOp(p, "signOut") /\ th'[p] # th[p] /\ th'[p].op = "signOut")
      => /\ th'[p].pc = "done"
         /\ sessions' = sessions
         /\ store' = store

\* C26: logout() is idempotent: with no stored token it issues no remote
\* delete and only clears the session store, and a second logout() right after
\* a first leaves the Session table and the session store as the first left
\* them.
C26_LogoutIdempotent == []C26_NoTokenNoDelete /\ [][C26_SecondLogout]_vars

C26_Witness ==
  \E p \in Procs :
    /\ DoneOp(p, "signOut")
    /\ th[p].loc.branch = "noToken"
    /\ th[p].pre.ops = 2
    /\ now = 0
    /\ nextToken = 2
    /\ sessions = {}

\* C27: after an updatePassword(profileId, newPassword) that returned
\* success, the Profile's password_hash verifies newPassword and no other
\* password; a login() with the Profile's email passes the verification with
\* the password the hash verifies, and with another password it fails with
\* 'Invalid email or password'.
C27_LoginAfterUpdatePassword ==
  \A p \in Procs :
    /\ (DoneOp(p, "updatePassword") /\ th[p].result.success)
         => \E P \in profiles :
              /\ P.id = th[p].arg.profileId
              /\ \A pw \in Passwords :
                   VerifyPassword(pw, P.password_hash) <=> pw = th[p].arg.password
    /\ DoneOp(p, "login")
         => \A P \in th[p].pre.profiles :
              (NamedProfile(th[p], P) /\ P.password_hash # NoHash)
                => IF VerifyPassword(th[p].arg.password, P.password_hash)
                     THEN th[p].loc.branch \in {"ok", "noRole"}
                     ELSE th[p].result = LoginFail(MsgInvalid)

C27_Witness ==
  \E p \in Procs :
    /\ DoneOp(p, "login")
    /\ th[p].loc.profile.id = 2
    /\ th[p].loc.profile.password_hash = HashPassword("p1")
    /\ th[p].arg.password = "p2"
    /\ th[p].result = LoginFail(MsgInvalid)

C28_AcceptedUntilExpiry ==
  \A p \in Procs :
    /\ (DoneOp(p, "login") /\ th[p].result.success)
         => \E c \in th[p].pre.now .. now :
              SessionRow(th[p]).expires_at = c + SESSION_DAYS
    /\ DoneGet(p)
         => \A s \in th[p].pre.sessions :
              (th[p].pre.store.token # 0 /\ s.session_token = th[p].pre.store.token)
                => IF th[p].loc.checkedAt <= s.expires_at
                     THEN /\ th[p].loc.branch \in {"ok", "noProfile"}
                          /\ s \in sessions
                          /\ store = th[p].pre.store
                     ELSE /\ th[p].loc.branch = "expired"
                          /\ th[p].result = UserResult(NoUser)
                          /\ s \notin sessions
                          /\ store = ClearedStore

C28_NoSweep ==
  /\ now' # now => sessions' = sessions
  /\ \A s \in sessions :
       s \notin sessions'
         => \E p \in Procs :
              \/ th[p].pc = "G_expire" /\ s.session_token = th[p].loc.token
              \/ th[p].pc = "O_delete" /\ s.session_token = th[p].loc.token
              \/ th[p].pc = "D_sessions" /\ s.profile_id = th[p].arg.profileId

\* C28: a Session that login() created at time t (expires_at = t + 7 days) is
\* accepted by getSessionUser() at every check time u <= t + 7 days and is
\* rejected, its row deleted and the store cleared, at every u > t + 7 days;
\* nothing sweeps the table as time passes: an expired row stays until such a
\* check (or a logout, or the delete of its employee).
C28_SevenDaySessions == []C28_AcceptedUntilExpiry /\ [][C28_NoSweep]_vars

C28_Witness ==
  \E p \in Procs :
    /\ DoneGet(p)
    /\ th[p].loc.branch = "expired"
    /\ \E s \in th[p].pre.sessions :
         /\ s.session_token = th[p].pre.store.token
         /\ s.expires_at < th[p].pre.now
         /\ s \notin sessions
    /\ store = ClearedStore

\* C30: after a login() that returned success, the session store holds the
\* token of the Session it created until a later logout() or login() changes
\* it, also when a getSessionUser() that started before the login, on a stale
\* or expired token, finishes after it.
C30_LoginTokenStays ==
  \A p, q \in Procs :
    (/\ DoneOp(p, "login") /\ th[p].result.success
     /\ th[q].op \in Getters
     /\ th[q].pre.ops < th[p].pre.ops)
      => store.token = th[p].loc.token

\* C31: of two createUser() calls with the same normalized email, interleaved
\* in any way, at most one returns success, and once both have returned at
\* most one Profile row has that email, with exactly one Role-assignment row
\* for its user_id.
C31_OneCreateWins ==
  \A p, q \in Procs :
    (/\ p # q
     /\ DoneOp(p, "createUser") /\ DoneOp(q, "createUser")
     /\ NormalizeEmail(th[p].arg.email) = NormalizeEmail(th[q].arg.email))
      => /\ ~(th[p].result.success /\ th[q].result.success)
         /\ \A P, Q \in profiles :
              (P.email = NormalizeEmail(th[p].arg.email) /\ Q.email = P.email)
                => /\ Q = P
                   /\ Cardinality({R \in roles : R.user_id = P.user_id}) = 1

\* C32: in every state that interleavings of login, logout and
\* getSessionUser reach, the two keys of the session store are both present
\* or both absent, and a stored user id is the user_id of the Profile of the
\* Session row of the stored token.
C32_StoreKeysTogether ==
  /\ (store.token = 0) <=> (store.user_id = 0)
  /\ store.token # 0
       => \E s \in sessions, P \in profiles :
            /\ s.session_token = store.token
            /\ P.id = s.profile_id
            /\ P.user_id = store.user_id

C32_Witness ==
  \E p, q \in Procs :
    /\ DoneOp(p, "login") /\ DoneOp(q, "signOut")
    /\ th[q].pre.ops < th[p].pre.ops
    /\ th[q].loc.token # 0
    /\ store.token = th[p].loc.token
    /\ sessions = {SessionRow(th[p])}

\* C33: updatePassword() changes the password_hash of the Profile it is given
\* and nothing else: every other Profile, every Role-assignment and Session
\* row and the session store are as they were; so a session issued before the
\* change still resolves to its user in getSessionUser().
C33_OnlyThePasswordChanges ==
  \A p \in Procs :
    /\ DoneOp(p, "updatePassword")
         => /\ sessions = th[p].pre.sessions
            /\ store = th[p].pre.store
            /\ roles = th[p].pre.roles
            /\ \E h \in {HashPassword(th[p].arg.password)}
                          \cup {P.password_hash : P \in th[p].pre.profiles} :
                 profiles =
                   {IF P.id = th[p].arg.profileId
                      THEN [P EXCEPT !.password_hash = h] ELSE P :
                    P \in th[p].pre.profiles}
            /\ th[p].result.success
                 => \E P \in profiles :
                      /\ P.id = th[p].arg.profileId
                      /\ P.password_hash = HashPassword(th[p].arg.password)
            /\ ~th[p].result.success => profiles = th[p].pre.profiles
    /\ DoneGet(p)
         => \A s \in th[p].pre.sessions, P \in th[p].pre.profiles :
              (LiveSessionAtStart(th[p], s) /\ P.id = s.profile_id)
                => /\ th[p].result.user # NoUser
                   /\ th[p].result.user.profileId = P.id
                   /\ th[p].result.user.id = P.user_id

C33_Witness ==
  \E p \in Procs :
    /\ DoneGet(p)
    /\ th[p].result.user # NoUser
    /\ \E P \in profiles, Q \in DegradedProfiles :
         /\ P.id = th[p].result.user.profileId
         /\ Q.id = P.id
         /\ Q.password_hash # P.password_hash
         /\ \E s \in DegradedSessions :
              s.profile_id = P.id /\ s.session_token = store.token

\* C34: after a handleDelete that completed without error for a Profile, the
\* Profile row, its Role-assignment row and every Session row of that Profile
\* are gone, also when a login() for that Profile was in flight meanwhile.
C34_DeleteRemovesEverything ==
  \A p \in Procs :
    (DoneOp(p, "handleDelete") /\ th[p].result.ok)
      => /\ ~\E P \in profiles : P.id = th[p].arg.profileId
         /\ ~\E R \in roles : R.user_id = th[p].loc.userId
         /\ ~\E s \in sessions : s.profile_id = th[p].arg.profileId

\* an id of the form 'HTE-<n>': the prefix, then digits and nothing else
WellFormedId(id) ==
  /\ Len(id) > 4
  /\ SubSeq(id, 1, 4) = <<"H", "T", "E", "-">>
  /\ \A i \in 5..Len(id) : IsDigit(id[i])

\* C35: generateNextEmployeeId returns 'HTE-' followed by 1 plus the largest
\* numeric suffix among the loaded ids of the form 'HTE-<n>', padded with
\* zeros to at least 3 digits ('HTE-001' when no such id is loaded), and the
\* result is the employee_id of no loaded employee.
C35_NextEmployeeId ==
  nextEmployeeId # NoEmployeeId
    => LET suffixes == {Decimal(SubSeq(employeeIds[i], 5, Len(employeeIds[i]))) :
                          i \in {j \in 1..Len(employeeIds) :
                                   WellFormedId(employeeIds[j])}}
           largest == IF suffixes = {} THEN 0
                      ELSE CHOOSE n \in suffixes : \A m \in suffixes : m <= n
       IN /\ nextEmployeeId =
               <<"H", "T", "E", "-">> \o PadStart(StringOf(largest + 1), 3, "0")
          /\ \A i \in 1..Len(employeeIds) : employeeIds[i] # nextEmployeeId

====
